---- MODULE Spec2Model ----
(***************************************************************************)
(* EufySecurityDataUpdateCoordinator                                       *)
(* (custom_components/eufy_security/coordinator.py).                       *)
(*                                                                         *)
(* The coordinator runs on one asyncio event loop.  A coroutine runs       *)
(* without interruption between two suspension points, so every action     *)
(* below is the code between two suspension points of one coroutine.  The  *)
(* suspension points are `await self.ws.set_ws()`, `await                  *)
(* self.ws.send_message(...)` and `await asyncio.sleep(1)`.  Entering      *)
(* `async with lock` on a lock created one line earlier never suspends:    *)
(* the lock is free, so acquire() returns at once.                         *)
(***************************************************************************)
EXTENDS Integers, Sequences, FiniteSets, TLC

(***************************************************************************)
(* Bounds of the model.                                                    *)
(***************************************************************************)
MaxRefreshCalls == 3
MaxInitCalls == 2
MaxStoreMessages == 3
MaxSessionInits == 1
MaxSessionRefreshes == 1
MaxCommands == 3
MaxLocks == 4

(***************************************************************************)
(* const.py: the tables the dispatcher consults.                           *)
(***************************************************************************)
MESSAGE_TYPES_TO_PROCESS == {"result", "event"}

MESSAGE_IDS_TO_PROCESS == {"start_listening", "poll_refresh"}

EVENT_TYPE_CONFIGURATION ==
    ("property changed" :> [name |-> "name", value |-> "value", is_cached |-> FALSE])
    @@ ("motion detected" :> [name |-> "motionDetected", value |-> "state", is_cached |-> FALSE])
    @@ ("got rtsp url" :> [name |-> "rtspUrl", value |-> "rtspUrl", is_cached |-> TRUE])

(***************************************************************************)
(* Values.  A JSON value is a tagged sequence of atoms, so that a string   *)
(* is a sequence of characters ("NUL" is the character \x00) and every     *)
(* other value is distinct from every string.                              *)
(***************************************************************************)
Str(chars) == [t |-> "str", s |-> chars]

Bool(b) == [t |-> "bool", s |-> <<b>>]

(* A list; an item "NUL" is an item that contains the character \x00. *)
List(items) == [t |-> "list", s |-> items]

Values == {Str(<<"a">>), Str(<<"NUL", "a">>), Bool("true"), List(<<"NUL", "a">>)}

Sources == {"device", "station"}

(***************************************************************************)
(* A dict is a function on its keys; d[k] raises KeyError off DOMAIN d.    *)
(***************************************************************************)
EmptyDict == <<>>

HasKey(d, k) == k \in DOMAIN d

SetItem(d, k, v) == [x \in DOMAIN d \cup {k} |-> IF x = k THEN v ELSE d[x]]

Get(d, k, default) == IF HasKey(d, k) THEN d[k] ELSE default

Entity(serial) == [serialNumber |-> serial]

(* The `state` objects a start_listening result may carry. *)
States ==
    { EmptyDict,
      [devices |-> <<Entity("D1")>>],
      [devices |-> <<Entity("D1"), Entity("D2")>>, stations |-> <<Entity("S1")>>],
      [devices |-> <<Entity("D1")>>, stations |-> <<Entity("D1")>>] }

VARIABLES
    data,                   \* self.data: [cache |-> dict, data |-> dict]
    start_listening_state,  \* self.start_listening_state
    poll_refresing_state,   \* self.poll_refresing_state
    updated,                \* async_set_updated_data calls made by the last on_message
    raised,                 \* exception the last on_message ended with, or "none"
    last_message,           \* the payload the last on_message was given
    prev,                   \* [data, start_listening_state, poll_refresing_state] before it
    nmessages,              \* payloads handled so far (store specification)
    ws,                     \* self.ws: "None" until initialize_ws has connected it
    ipc,                    \* where initialize_ws stands
    icounter,               \* counter of its check_if_started_listening
    ichecks,                \* loop tests of that wait that found the flag unequal
    iflag,                  \* start_listening_state at the moment that wait returned
    start_sent,             \* start-listening commands sent by the current initialize_ws
    ninit,                  \* initialize_ws calls so far
    start_inflight,         \* start-listening commands not yet answered
    start_acked,            \* a start_listening result was handled since the last reset
    listened,               \* state carried by the last start_listening result handled
    rpc,                    \* where each _async_update_data call stands
    rcounter,               \* counter of its check_if_poll_refreshed
    rchecks,                \* loop tests of that wait that found the flag unequal
    rflag,                  \* poll_refresing_state at the moment that wait returned
    rcall,                  \* number of the call each task is running (0: none yet)
    racked,                 \* calls whose results were handled since the task's reset
    robserved,              \* poll_acked at the moment the call returned self.data
    ncalls,                 \* _async_update_data calls so far
    poll_inflight,          \* calls whose poll-refresh command is not yet answered
    poll_acked,             \* calls whose results were handled since the last reset
    rlistening,             \* start_listening_state was true at some moment of the call
    GET_PROPERTIES_MESSAGE,           \* const.GET_PROPERTIES_MESSAGE, a module-level dict
    GET_PROPERTIES_METADATA_MESSAGE,  \* const.GET_PROPERTIES_METADATA_MESSAGE, likewise
    sent,                   \* the last property command handed to send_message, and its call
    ncommands,              \* property commands sent so far
    locks,                  \* the asyncio.Lock objects made so far: "free" or "held"
    wpc,                    \* where the wait on each flag stands
    wcounter,               \* counter of that wait
    wlock,                  \* the lock that wait holds (0: none)
    write_locks,            \* the locks under which each flag has been written
    requested,              \* the value the last set call for each flag was given
    pending                 \* set calls suspended on acquiring their lock

storeVars == <<data, start_listening_state, poll_refresing_state, updated, raised,
               last_message, prev>>

initVars == <<ws, ipc, icounter, ichecks, iflag, start_sent, ninit, start_inflight,
              start_acked, listened>>

refreshVars == <<rpc, rcounter, rchecks, rflag, rcall, racked, robserved, ncalls,
                 poll_inflight, poll_acked, rlistening>>

commandVars == <<GET_PROPERTIES_MESSAGE, GET_PROPERTIES_METADATA_MESSAGE, sent, ncommands>>

lockVars == <<locks, wpc, wcounter, wlock, write_locks, requested, pending>>

otherVars == <<commandVars, lockVars>>

vars == <<storeVars, nmessages, initVars, refreshVars, otherVars>>

RefreshTasks == {"r1", "r2"}

(***************************************************************************)
(* set_data_value_for_property: the first entity of data["data"][sources]  *)
(* whose serialNumber matches gets the property; the loop breaks there.    *)
(***************************************************************************)
FirstMatch(entities, serial_number) ==
    LET hits == {i \in 1..Len(entities) : entities[i]["serialNumber"] = serial_number}
    IN  IF hits = {} THEN 0 ELSE CHOOSE i \in hits : \A j \in hits : i <= j

(* Variant: the collection name is ignored and every collection is scanned. *)
set_data_value_in_every_collection(d, sources, serial_number, property_name, value) ==
    IF ~HasKey(d["data"], sources)
    THEN [data |-> d, raised |-> "KeyError"]
    ELSE [data |-> [d EXCEPT !["data"] =
                      [c \in DOMAIN d["data"] |->
                         LET i == FirstMatch(d["data"][c], serial_number)
                         IN  IF i = 0 THEN d["data"][c]
                             ELSE [d["data"][c] EXCEPT ![i] =
                                     SetItem(d["data"][c][i], property_name, value)]]],
          raised |-> "none"]

set_data_value_for_property(d, sources, serial_number, property_name, value) ==
    IF ~HasKey(d["data"], sources)
    THEN [data |-> d, raised |-> "KeyError"]
    ELSE LET entities == d["data"][sources]
             i == FirstMatch(entities, serial_number)
         IN  IF i = 0
             THEN [data |-> d, raised |-> "none"]
             ELSE [data |-> [d EXCEPT !["data"][sources][i] =
                                SetItem(entities[i], property_name, value)],
                   raised |-> "none"]

(***************************************************************************)
(* set_cache_value_for_property: NUL characters are removed from a string, *)
(* the per-serial dict is created when absent, the property is set.        *)
(***************************************************************************)
(* Variant: the value is stored as received. *)
replace_nul_skipped(value) == value

replace_nul(value) ==
    IF value.t = "str"
    THEN Str(SelectSeq(value.s, LAMBDA c : c # "NUL"))
    ELSE value

set_cache_value_for_property(d, sources, serial_number, property_name, value) ==
    LET v == replace_nul(value)
        entry == Get(d["cache"], serial_number, EmptyDict)
    IN  [d EXCEPT !["cache"] = SetItem(d["cache"], serial_number,
                                       SetItem(entry, property_name, v))]

(***************************************************************************)
(* on_message, as a function of the payload and the coordinator's state.   *)
(* It has no suspension point: the two set_*_state calls acquire a fresh   *)
(* lock and async_set_updated_data is synchronous.                         *)
(***************************************************************************)
Outcome(d, sl, pr, upd, err) ==
    [data |-> d, start_listening_state |-> sl, poll_refresing_state |-> pr,
     updated |-> upd, raised |-> err]

(* Variant: the received state is merged into the snapshot, key by key. *)
on_message_result_merging(payload, message, d, sl, pr) ==
    IF ~HasKey(payload, "messageId") THEN Outcome(d, sl, pr, 0, "KeyError")
    ELSE LET message_id == payload["messageId"] IN
    IF message_id \notin MESSAGE_IDS_TO_PROCESS THEN Outcome(d, sl, pr, 0, "none")
    ELSE IF message_id = "start_listening"
    THEN IF ~HasKey(message, "state") THEN Outcome(d, sl, pr, 0, "KeyError")
         ELSE Outcome([d EXCEPT !["data"] =
                         [k \in DOMAIN d["data"] \cup DOMAIN message["state"] |->
                            IF HasKey(message["state"], k) THEN message["state"][k]
                            ELSE d["data"][k]]],
                      TRUE, pr, 1, "none")
    ELSE Outcome(d, sl, TRUE, 0, "none")

(* Variant: a start_listening result starts the whole store afresh. *)
on_message_result_resetting_cache(payload, message, d, sl, pr) ==
    IF ~HasKey(payload, "messageId") THEN Outcome(d, sl, pr, 0, "KeyError")
    ELSE LET message_id == payload["messageId"] IN
    IF message_id \notin MESSAGE_IDS_TO_PROCESS THEN Outcome(d, sl, pr, 0, "none")
    ELSE IF message_id = "start_listening"
    THEN IF ~HasKey(message, "state") THEN Outcome(d, sl, pr, 0, "KeyError")
         ELSE Outcome([cache |-> EmptyDict, data |-> message["state"]], TRUE, pr, 1, "none")
    ELSE Outcome(d, sl, TRUE, 0, "none")

(* Variant: a start_listening result sets the flag and keeps the snapshot. *)
on_message_result_keeping_snapshot(payload, message, d, sl, pr) ==
    IF ~HasKey(payload, "messageId") THEN Outcome(d, sl, pr, 0, "KeyError")
    ELSE LET message_id == payload["messageId"] IN
    IF message_id \notin MESSAGE_IDS_TO_PROCESS THEN Outcome(d, sl, pr, 0, "none")
    ELSE IF message_id = "start_listening"
    THEN IF ~HasKey(message, "state") THEN Outcome(d, sl, pr, 0, "KeyError")
         ELSE Outcome(d, TRUE, pr, 1, "none")
    ELSE Outcome(d, sl, TRUE, 0, "none")

on_message_result(payload, message, d, sl, pr) ==
    IF ~HasKey(payload, "messageId") THEN Outcome(d, sl, pr, 0, "KeyError")
    ELSE LET message_id == payload["messageId"] IN
    IF message_id \notin MESSAGE_IDS_TO_PROCESS THEN Outcome(d, sl, pr, 0, "none")
    ELSE IF message_id = "start_listening"
    THEN IF ~HasKey(message, "state") THEN Outcome(d, sl, pr, 0, "KeyError")
         ELSE Outcome([d EXCEPT !["data"] = message["state"]], TRUE, pr, 1, "none")
    ELSE Outcome(d, sl, TRUE, 0, "none")

on_message_event(message, d, sl, pr) ==
    IF ~({"event", "source", "serialNumber"} \subseteq DOMAIN message)
    THEN Outcome(d, sl, pr, 0, "KeyError")
    ELSE LET event_type == message["event"]
             event_sources == message["source"] \o "s"
             event_serial_number == message["serialNumber"]
         IN
    IF event_type \notin DOMAIN EVENT_TYPE_CONFIGURATION
    THEN Outcome(d, sl, pr, 0, "none")
    ELSE LET conf == EVENT_TYPE_CONFIGURATION[event_type]
             event_property_name == Get(message, "name", conf["name"])
         IN
    IF ~HasKey(message, conf["value"]) THEN Outcome(d, sl, pr, 0, "KeyError")
    ELSE LET event_property_value == message[conf["value"]] IN
    IF conf["is_cached"]
    THEN Outcome(set_cache_value_for_property(d, event_sources, event_serial_number,
                                              event_property_name, event_property_value),
                 sl, pr, 1, "none")
    ELSE LET r == set_data_value_for_property(d, event_sources, event_serial_number,
                                              event_property_name, event_property_value)
         IN  IF r.raised # "none"
             THEN Outcome(r.data, sl, pr, 0, r.raised)
             ELSE Outcome(r.data, sl, pr, 1, "none")

on_message(payload, d, sl, pr) ==
    IF ~HasKey(payload, "type") THEN Outcome(d, sl, pr, 0, "KeyError")
    ELSE LET message_type == payload["type"] IN
    IF message_type \notin MESSAGE_TYPES_TO_PROCESS THEN Outcome(d, sl, pr, 0, "none")
    ELSE IF ~HasKey(payload, message_type) THEN Outcome(d, sl, pr, 0, "KeyError")
    ELSE IF message_type = "result"
         THEN on_message_result(payload, payload[message_type], d, sl, pr)
         ELSE on_message_event(payload[message_type], d, sl, pr)

(***************************************************************************)
(* Inbound payloads.  Event payloads follow the transport's shape          *)
(* {"type": "event", "event": {...}}; the malformed ones lack a field the  *)
(* dispatcher subscripts.                                                  *)
(***************************************************************************)
ResultPayload(message_id, message) ==
    [type |-> "result", messageId |-> message_id, result |-> message]

EventPayload(message) == [type |-> "event", event |-> message]

StartListeningResults == {ResultPayload("start_listening", [state |-> s]) : s \in States}

PollRefreshResult == ResultPayload("poll_refresh", EmptyDict)

(* The key field serialNumber is never the property an event names. *)
LiveEvents ==
    { EventPayload([event |-> "property changed", source |-> src, serialNumber |-> sn,
                    name |-> "name", value |-> v]) :
        src \in Sources, sn \in {"D1", "D2"}, v \in {Str(<<"a">>), Bool("true")} }
    \cup
    { EventPayload([event |-> "motion detected", source |-> src, serialNumber |-> sn,
                    state |-> Bool("true")]) :
        src \in Sources, sn \in {"D1", "S1"} }

CachedEvents ==
    { EventPayload([event |-> "got rtsp url", source |-> "device", serialNumber |-> sn,
                    rtspUrl |-> v]) :
        sn \in {"D1", "D2"}, v \in Values }

UnrecognizedPayloads ==
    { [type |-> "version", version |-> EmptyDict],
      ResultPayload("unknown_id", EmptyDict),
      ResultPayload("device.get_properties", [state |-> EmptyDict]),
      EventPayload([event |-> "verify code", source |-> "station", serialNumber |-> "S1"]) }

MalformedPayloads ==
    { EmptyDict,
      [type |-> "result", messageId |-> "start_listening"],
      [type |-> "result", result |-> [state |-> EmptyDict]],
      ResultPayload("start_listening", EmptyDict),
      [type |-> "event"],
      EventPayload([event |-> "verify code", source |-> "station"]),
      EventPayload([event |-> "motion detected", source |-> "device", serialNumber |-> "D1"]) }

StoreMessages ==
    StartListeningResults \cup {PollRefreshResult} \cup LiveEvents \cup CachedEvents
    \cup UnrecognizedPayloads \cup MalformedPayloads

NoMessage == [none |-> TRUE]

Before == [data |-> data, start_listening_state |-> start_listening_state,
           poll_refresing_state |-> poll_refresing_state]

(* The transport hands one payload to on_message. *)
Receive(payload) ==
    LET r == on_message(payload, data, start_listening_state, poll_refresing_state)
    IN  /\ data' = r.data
        /\ start_listening_state' = r.start_listening_state
        /\ poll_refresing_state' = r.poll_refresing_state
        /\ updated' = r.updated
        /\ raised' = r.raised

(***************************************************************************)
(* check_if_started_listening and check_if_poll_refreshed, one loop each.  *)
(* `head` is the test of the while condition, `wake` the code after        *)
(* asyncio.sleep(1) up to the next suspension or return.                   *)
(***************************************************************************)
Wait(result, counter, checks) == [result |-> result, counter |-> counter, checks |-> checks]

check_if_started_listening_head(flag, to_be_value, counter, checks) ==
    IF flag # to_be_value
    THEN Wait("sleep", counter, checks + 1)
    ELSE Wait("True", counter, checks)

check_if_started_listening_wake(flag, to_be_value, counter, checks) ==
    IF counter + 1 > 5
    THEN Wait("False", counter + 1, checks)
    ELSE check_if_started_listening_head(flag, to_be_value, counter + 1, checks)

check_if_poll_refreshed_head(flag, to_be_value, counter, checks) ==
    IF flag # to_be_value
    THEN Wait("sleep", counter, checks + 1)
    ELSE Wait("True", counter, checks)

(* Variant: an exhausted wait reports success. *)
check_if_poll_refreshed_wake_lenient(flag, to_be_value, counter, checks) ==
    IF counter + 1 > 5
    THEN Wait("True", counter + 1, checks)
    ELSE check_if_poll_refreshed_head(flag, to_be_value, counter + 1, checks)

check_if_poll_refreshed_wake(flag, to_be_value, counter, checks) ==
    IF counter + 1 > 5
    THEN Wait("False", counter + 1, checks)
    ELSE check_if_poll_refreshed_head(flag, to_be_value, counter + 1, checks)

(***************************************************************************)
(* initialize_ws.                                                          *)
(***************************************************************************)
(* Lines 61-70: the socket object is made, set_ws() is awaited. *)
InitializeCall ==
    /\ ipc \in {"idle", "returned", "raised"}
    /\ ninit < MaxInitCalls
    /\ ninit' = ninit + 1
    /\ ipc' = "connect"
    /\ start_sent' = 0
    /\ icounter' = 0
    /\ ichecks' = 0
    /\ UNCHANGED <<storeVars, nmessages, otherVars, ws, iflag, start_inflight, start_acked, listened,
                   refreshVars>>

(* Lines 71, 220-222: set_ws() is back; the flag is reset and the command sent. *)
async_start_listening ==
    /\ ipc = "connect"
    /\ ws' = "open"
    /\ start_listening_state' = FALSE
    /\ start_acked' = FALSE
    /\ start_sent' = start_sent + 1
    /\ start_inflight' = start_inflight + 1
    /\ ipc' = "send"
    /\ UNCHANGED <<data, poll_refresing_state, updated, raised, last_message, prev,
                   nmessages, otherVars, icounter, ichecks, iflag, ninit, listened, refreshVars>>

InitializeEnd(w) ==
    /\ icounter' = w.counter
    /\ ichecks' = w.checks
    /\ ipc' = CASE w.result = "sleep" -> "sleep"
                [] w.result = "True" -> "returned"
                [] w.result = "False" -> "raised"
    /\ iflag' = IF w.result = "sleep" THEN iflag ELSE start_listening_state
    /\ UNCHANGED <<storeVars, nmessages, otherVars, ws, start_sent, ninit, start_inflight,
                   start_acked, listened, refreshVars>>

(* Lines 72, 82-88: send_message is back; the wait begins. *)
InitializeSent ==
    /\ ipc = "send"
    /\ InitializeEnd(check_if_started_listening_head(start_listening_state, TRUE, 0, 0))

(* Variant: a wait that ran out sends the command again and waits once more. *)
InitializeWakeRetrying ==
    /\ ipc = "sleep"
    /\ LET w == check_if_started_listening_wake(start_listening_state, TRUE,
                                                icounter, ichecks)
       IN  IF w.result = "False" /\ start_sent < 2
           THEN /\ start_sent' = start_sent + 1
                /\ start_inflight' = start_inflight + 1
                /\ ipc' = "send"
                /\ UNCHANGED <<storeVars, nmessages, otherVars, ws, icounter, ichecks, iflag, ninit,
                               start_acked, listened, refreshVars>>
           ELSE InitializeEnd(w)

(* Lines 89-96, 72-74: asyncio.sleep(1) is back. *)
InitializeWake ==
    /\ ipc = "sleep"
    /\ InitializeEnd(check_if_started_listening_wake(start_listening_state, TRUE,
                                                     icounter, ichecks))

(***************************************************************************)
(* _async_update_data.                                                     *)
(***************************************************************************)
(* Variant: the command is sent without resetting the flag first. *)
async_poll_refresh_without_reset(t) ==
    /\ rpc[t] \in {"idle", "returned", "failed"}
    /\ ws = "open"
    /\ ncalls < MaxRefreshCalls
    /\ ncalls' = ncalls + 1
    /\ rcall' = [rcall EXCEPT ![t] = ncalls + 1]
    /\ poll_acked' = {}
    /\ racked' = [racked EXCEPT ![t] = {}]
    /\ poll_inflight' = poll_inflight \cup {ncalls + 1}
    /\ rpc' = [rpc EXCEPT ![t] = "send"]
    /\ rcounter' = [rcounter EXCEPT ![t] = 0]
    /\ rchecks' = [rchecks EXCEPT ![t] = 0]
    /\ rlistening' = [rlistening EXCEPT ![t] = start_listening_state]
    /\ UNCHANGED <<storeVars, nmessages, otherVars, initVars, rflag, robserved>>

(* Lines 209, 224-226: the flag is reset and the command handed to the transport. *)
async_poll_refresh(t) ==
    /\ rpc[t] \in {"idle", "returned", "failed"}
    /\ ws = "open"
    /\ ncalls < MaxRefreshCalls
    /\ ncalls' = ncalls + 1
    /\ rcall' = [rcall EXCEPT ![t] = ncalls + 1]
    /\ poll_refresing_state' = FALSE
    /\ poll_acked' = {}
    /\ racked' = [racked EXCEPT ![t] = {}]
    /\ poll_inflight' = poll_inflight \cup {ncalls + 1}
    /\ rpc' = [rpc EXCEPT ![t] = "send"]
    /\ rcounter' = [rcounter EXCEPT ![t] = 0]
    /\ rchecks' = [rchecks EXCEPT ![t] = 0]
    /\ rlistening' = [rlistening EXCEPT ![t] = start_listening_state]
    /\ UNCHANGED <<data, start_listening_state, updated, raised, last_message, prev,
                   nmessages, otherVars, initVars, rflag, robserved>>

(* Variant: a refresh that timed out drops the live snapshot. *)
UpdateEndDroppingSnapshot(t, w) ==
    /\ rcounter' = [rcounter EXCEPT ![t] = w.counter]
    /\ rchecks' = [rchecks EXCEPT ![t] = w.checks]
    /\ rpc' = [rpc EXCEPT ![t] = CASE w.result = "sleep" -> "sleep"
                                    [] w.result = "True" -> "returned"
                                    [] w.result = "False" -> "failed"]
    /\ rflag' = IF w.result = "sleep" THEN rflag
                ELSE [rflag EXCEPT ![t] = poll_refresing_state]
    /\ robserved' = IF w.result = "True" THEN [robserved EXCEPT ![t] = poll_acked]
                    ELSE robserved
    /\ data' = IF w.result = "False" THEN [data EXCEPT !["data"] = EmptyDict] ELSE data
    /\ UNCHANGED <<start_listening_state, poll_refresing_state, updated, raised,
                   last_message, prev, nmessages, otherVars, initVars, rcall, racked, ncalls,
                   poll_inflight, poll_acked, rlistening>>

UpdateEnd(t, w) ==
    /\ rcounter' = [rcounter EXCEPT ![t] = w.counter]
    /\ rchecks' = [rchecks EXCEPT ![t] = w.checks]
    /\ rpc' = [rpc EXCEPT ![t] = CASE w.result = "sleep" -> "sleep"
                                    [] w.result = "True" -> "returned"
                                    [] w.result = "False" -> "failed"]
    /\ rflag' = IF w.result = "sleep" THEN rflag
                ELSE [rflag EXCEPT ![t] = poll_refresing_state]
    /\ robserved' = IF w.result = "True" THEN [robserved EXCEPT ![t] = poll_acked]
                    ELSE robserved
    /\ UNCHANGED <<storeVars, nmessages, otherVars, initVars, rcall, racked, ncalls, poll_inflight,
                   poll_acked, rlistening>>

(* Lines 210, 104-107: send_message is back; the wait begins. *)
UpdateSent(t) ==
    /\ rpc[t] = "send"
    /\ UpdateEnd(t, check_if_poll_refreshed_head(poll_refresing_state, TRUE, 0, 0))

(* Lines 108-112, 210-215: asyncio.sleep(1) is back. *)
UpdateWake(t) ==
    /\ rpc[t] = "sleep"
    /\ UpdateEnd(t, check_if_poll_refreshed_wake(poll_refresing_state, TRUE,
                                                 rcounter[t], rchecks[t]))

(***************************************************************************)
(* The transport's callbacks.  The server answers a command at most once,  *)
(* at any later time or never.                                             *)
(***************************************************************************)
SessionStates == {[devices |-> <<Entity("D1")>>],
                  [devices |-> <<Entity("D1"), Entity("D2")>>, stations |-> <<Entity("S1")>>]}

StartListeningResult(s) ==
    /\ start_inflight > 0
    /\ start_inflight' = start_inflight - 1
    /\ Receive(ResultPayload("start_listening", [state |-> s]))
    /\ start_acked' = TRUE
    /\ listened' = s
    /\ rlistening' = [t \in RefreshTasks |-> rlistening[t] \/ rpc[t] \in {"send", "sleep"}]
    /\ UNCHANGED <<last_message, prev, nmessages, otherVars, ws, ipc, icounter, ichecks, iflag,
                   start_sent, ninit, rpc, rcounter, rchecks, rflag, rcall, racked,
                   robserved, ncalls, poll_inflight, poll_acked>>

PollRefreshed(c) ==
    /\ c \in poll_inflight
    /\ poll_inflight' = poll_inflight \ {c}
    /\ Receive(PollRefreshResult)
    /\ poll_acked' = poll_acked \cup {c}
    /\ racked' = [t \in RefreshTasks |->
                    IF rpc[t] \in {"send", "sleep"} THEN racked[t] \cup {c} ELSE racked[t]]
    /\ UNCHANGED <<last_message, prev, nmessages, otherVars, initVars, rpc, rcounter, rchecks, rflag,
                   rcall, robserved, ncalls, rlistening>>

(* The events the server pushes during a session: cached ones and a live one. *)
SessionEvents ==
    { EventPayload([event |-> "got rtsp url", source |-> "device", serialNumber |-> "D1",
                    rtspUrl |-> Str(<<"NUL", "a">>)]),
      EventPayload([event |-> "got rtsp url", source |-> "device", serialNumber |-> "D1",
                    rtspUrl |-> Bool("true")]),
      EventPayload([event |-> "motion detected", source |-> "device", serialNumber |-> "D1",
                    state |-> Bool("true")]) }

EventReceived(payload) ==
    /\ ws = "open"
    /\ Receive(payload)
    /\ UNCHANGED <<last_message, prev, nmessages, otherVars, initVars, refreshVars>>

(* Variant: the handler resets both session flags. *)
ClosedResettingBothFlags ==
    /\ start_listening_state' = FALSE
    /\ poll_refresing_state' = FALSE
    /\ UNCHANGED <<data, updated, raised>>

(* Lines 199-201: what on_close does to the coordinator. *)
Closed ==
    /\ start_listening_state' = FALSE
    /\ UNCHANGED <<data, poll_refresing_state, updated, raised>>

(* Lines 203-205: what on_error does to the coordinator. *)
Errored ==
    /\ start_listening_state' = FALSE
    /\ UNCHANGED <<data, poll_refresing_state, updated, raised>>

(* Lines 196-197: on_open only logs. *)
Opened == UNCHANGED <<data, start_listening_state, poll_refresing_state, updated, raised>>

on_close ==
    /\ ws = "open"
    /\ Closed
    /\ start_acked' = FALSE
    /\ UNCHANGED <<last_message, prev, nmessages, otherVars, ws, ipc, icounter, ichecks, iflag,
                   start_sent, ninit, start_inflight, listened, refreshVars>>

on_error ==
    /\ ws = "open"
    /\ Errored
    /\ start_acked' = FALSE
    /\ UNCHANGED <<last_message, prev, nmessages, otherVars, ws, ipc, icounter, ichecks, iflag,
                   start_sent, ninit, start_inflight, listened, refreshVars>>

(***************************************************************************)
(* The state after __init__ (lines 49-58).                                 *)
(***************************************************************************)
(* The property-command templates as const.py defines them. *)
Template(suffix) == [command |-> <<"{}", suffix>>, serialNumber |-> "None"]

Flags == {"start_listening_state", "poll_refresing_state"}

(* The command templates are untouched, no flag function has been called. *)
OtherInit ==
    /\ GET_PROPERTIES_MESSAGE = Template(".get_properties")
    /\ GET_PROPERTIES_METADATA_MESSAGE = Template(".get_properties_metadata")
    /\ sent = NoMessage
    /\ ncommands = 0
    /\ locks = <<>>
    /\ wpc = [f \in Flags |-> "idle"]
    /\ wcounter = [f \in Flags |-> 0]
    /\ wlock = [f \in Flags |-> 0]
    /\ write_locks = [f \in Flags |-> {}]
    /\ requested = [f \in Flags |-> FALSE]
    /\ pending = <<>>

Init ==
    /\ OtherInit
    /\ data = [cache |-> EmptyDict, data |-> EmptyDict]
    /\ start_listening_state = FALSE
    /\ poll_refresing_state = FALSE
    /\ updated = 0
    /\ raised = "none"
    /\ last_message = NoMessage
    /\ prev = [data |-> [cache |-> EmptyDict, data |-> EmptyDict],
               start_listening_state |-> FALSE, poll_refresing_state |-> FALSE]
    /\ nmessages = 0
    /\ ws = "None"
    /\ ipc = "idle"
    /\ icounter = 0
    /\ ichecks = 0
    /\ iflag = FALSE
    /\ start_sent = 0
    /\ ninit = 0
    /\ start_inflight = 0
    /\ start_acked = FALSE
    /\ listened = NoMessage
    /\ rpc = [t \in RefreshTasks |-> "idle"]
    /\ rcounter = [t \in RefreshTasks |-> 0]
    /\ rchecks = [t \in RefreshTasks |-> 0]
    /\ rflag = [t \in RefreshTasks |-> FALSE]
    /\ rcall = [t \in RefreshTasks |-> 0]
    /\ racked = [t \in RefreshTasks |-> {}]
    /\ robserved = [t \in RefreshTasks |-> {}]
    /\ ncalls = 0
    /\ poll_inflight = {}
    /\ poll_acked = {}
    /\ rlistening = [t \in RefreshTasks |-> FALSE]

(***************************************************************************)
(* initialize_ws with the transport's replies and lifecycle callbacks.     *)
(***************************************************************************)
InitializeNext ==
    \/ InitializeCall
    \/ async_start_listening
    \/ InitializeSent
    \/ InitializeWake
    \/ \E s \in SessionStates : StartListeningResult(s)
    \/ on_close
    \/ on_error
    \/ \E payload \in SessionEvents : EventReceived(payload)

SpecInitialize == Init /\ [][InitializeNext]_vars

(***************************************************************************)
(* The whole session of one coordinator: initialize_ws, the refresh ticks  *)
(* of one task, the replies, the pushed events and the lifecycle           *)
(* callbacks, in any interleaving.                                         *)
(***************************************************************************)
SessionNext ==
    \/ (ninit < MaxSessionInits /\ InitializeCall)
    \/ async_start_listening
    \/ InitializeSent
    \/ InitializeWake
    \/ (ncalls < MaxSessionRefreshes /\ async_poll_refresh("r1"))
    \/ UpdateSent("r1")
    \/ UpdateWake("r1")
    \/ \E s \in SessionStates : StartListeningResult(s)
    \/ \E c \in 1..MaxRefreshCalls : PollRefreshed(c)
    \/ on_close
    \/ on_error
    \/ \E payload \in SessionEvents : EventReceived(payload)

SpecSession == Init /\ [][SessionNext]_vars

(***************************************************************************)
(* The refresh ticks of a coordinator whose initialize_ws has returned:    *)
(* Listening is a state SpecInitialize reaches by InitializeCall,          *)
(* async_start_listening, StartListeningResult, InitializeSent.  Two       *)
(* tasks may run _async_update_data, so calls can follow one another or    *)
(* overlap.                                                                *)
(***************************************************************************)
Listening ==
    /\ OtherInit
    /\ \E s \in SessionStates : data = [cache |-> EmptyDict, data |-> s]
    /\ start_listening_state = TRUE
    /\ poll_refresing_state = FALSE
    /\ updated = 1
    /\ raised = "none"
    /\ last_message = NoMessage
    /\ prev = [data |-> [cache |-> EmptyDict, data |-> EmptyDict],
               start_listening_state |-> FALSE, poll_refresing_state |-> FALSE]
    /\ nmessages = 0
    /\ ws = "open"
    /\ ipc = "returned"
    /\ icounter = 0
    /\ ichecks = 0
    /\ iflag = TRUE
    /\ start_sent = 1
    /\ ninit = 1
    /\ start_inflight = 0
    /\ start_acked = TRUE
    /\ listened = data["data"]
    /\ rpc = [t \in RefreshTasks |-> "idle"]
    /\ rcounter = [t \in RefreshTasks |-> 0]
    /\ rchecks = [t \in RefreshTasks |-> 0]
    /\ rflag = [t \in RefreshTasks |-> FALSE]
    /\ rcall = [t \in RefreshTasks |-> 0]
    /\ racked = [t \in RefreshTasks |-> {}]
    /\ robserved = [t \in RefreshTasks |-> {}]
    /\ ncalls = 0
    /\ poll_inflight = {}
    /\ poll_acked = {}
    /\ rlistening = [t \in RefreshTasks |-> FALSE]

Next ==
    \/ \E t \in RefreshTasks : async_poll_refresh(t)
    \/ \E t \in RefreshTasks : UpdateSent(t)
    \/ \E t \in RefreshTasks : UpdateWake(t)
    \/ \E c \in 1..MaxRefreshCalls : PollRefreshed(c)

Spec == Listening /\ [][Next]_vars

(* The store: any sequence of callbacks from the transport, that is inbound
   payloads handed to on_message and on_open, on_close, on_error. *)
OnMessage(payload) ==
    /\ nmessages < MaxStoreMessages
    /\ nmessages' = nmessages + 1
    /\ Receive(payload)
    /\ last_message' = payload
    /\ prev' = Before
    /\ UNCHANGED <<initVars, refreshVars, otherVars>>

(* The marker last_message holds after a lifecycle callback. *)
Callback(name) == [callback |-> name]

Lifecycle(name) ==
    /\ nmessages < MaxStoreMessages
    /\ nmessages' = nmessages + 1
    /\ last_message' = Callback(name)
    /\ prev' = Before
    /\ UNCHANGED <<initVars, refreshVars, otherVars>>

OnOpen == Lifecycle("on_open") /\ Opened

OnClose == Lifecycle("on_close") /\ Closed

OnError == Lifecycle("on_error") /\ Errored

StoreNext ==
    \/ \E payload \in StoreMessages : OnMessage(payload)
    \/ OnOpen
    \/ OnClose
    \/ OnError

SpecStore == Init /\ [][StoreNext]_vars

(***************************************************************************)
(* Properties of the refresh tick (Spec).                                  *)
(***************************************************************************)
Returned(t) == rpc[t] = "returned"

Failed(t) == rpc[t] = "failed"

(* C1: a refresh() during which on_message handled no poll_refresh result
   does not return the snapshot; it raises UpdateFailed, and only once its
   bounded wait is exhausted (the counter has passed 5); no wait sleeps
   more than that. *)
C1_NoReplyRaisesUpdateFailed ==
    \A t \in RefreshTasks :
        /\ rcounter[t] <= 6
        /\ (rcall[t] # 0 /\ racked[t] = {}) => ~Returned(t)
        /\ Failed(t) => rcounter[t] > 5

C1_Witness == \E t \in RefreshTasks : Failed(t) /\ racked[t] = {} /\ rcall[t] \in poll_inflight

(* C2: refresh() returns successfully exactly when a poll_refresh result was
   handled after its reset of poll_refreshed: a result handled before the
   call never makes it succeed, a result handled at any point after the
   reset does. *)
C2_SucceedsIffResultAfterReset ==
    \A t \in RefreshTasks :
        /\ Returned(t) => racked[t] # {}
        /\ Failed(t) => racked[t] = {}

(* C3 as claimed: whenever a refresh() returns successfully, the result that
   set poll_refreshed answers the command that same call sent. *)
C3_ObservedOwnReply ==
    \A t \in RefreshTasks : Returned(t) => rcall[t] \in robserved[t]

(* C3 as amended: poll_refreshed is true exactly when some poll_refresh
   result was handled since the flag's last reset, and a refresh() that
   returns successfully observed at least one result handled after its own
   reset, which need not answer its own command. *)
C3_FlagReflectsResultSinceReset ==
    /\ poll_refresing_state <=> poll_acked # {}
    /\ \A t \in RefreshTasks :
          Returned(t) => /\ robserved[t] # {}
                         /\ robserved[t] \subseteq racked[t]

C3_Witness == \E t \in RefreshTasks : Returned(t) /\ rcall[t] \notin robserved[t]

(* C5: a wait whose flag never reaches the expected value returns false
   after exactly 5 failed checks and 5 sleeps of one second. *)
C5_FalseAfterFivePolls ==
    \A t \in RefreshTasks : Failed(t) => (rchecks[t] = 5 /\ rcounter[t] = 5)

(* C6: the wait returns true only with the flag at the expected value, at
   once when it already is (no sleep), and it never returns false at a
   moment when the flag has the expected value. *)
C6_NeverFalseWhileFlagSet ==
    \A t \in RefreshTasks :
        /\ Returned(t) => rflag[t] = TRUE
        /\ Failed(t) => rflag[t] = FALSE

(***************************************************************************)
(* Properties of initialize_ws (SpecInitialize).                           *)
(***************************************************************************)
(* C4: initialize() sends the start-listening command exactly once, after
   connecting and before waiting; when the wait returns false it raises and
   no further command is sent; it returns normally only when the wait saw
   listening_active true. *)
C4_InitializeSendsOnce ==
    /\ ipc = "connect" => start_sent = 0
    /\ ipc \in {"send", "sleep", "returned", "raised"} => (start_sent = 1 /\ ws = "open")
    /\ ipc = "returned" => iflag = TRUE
    /\ ipc = "raised" => icounter > 5

C4_Witness == ipc = "raised" /\ start_sent = 1 /\ ninit = 2

(***************************************************************************)
(* Properties of the dispatcher and the store (SpecStore).                 *)
(***************************************************************************)
Message == last_message["event"]

Collection == Message["source"] \o "s"

(* The entity records of prev's snapshot the last live event addresses. *)
Present ==
    /\ HasKey(prev.data["data"], Collection)
    /\ FirstMatch(prev.data["data"][Collection], Message["serialNumber"]) # 0

Unchanged ==
    /\ data = prev.data
    /\ start_listening_state = prev.start_listening_state
    /\ poll_refresing_state = prev.poll_refresing_state

(* C7: after a start_listening result with state S the live snapshot is S
   exactly and listening_active is true, whatever they were before. *)
C7_StartListeningReplacesSnapshot ==
    last_message \in StartListeningResults =>
        /\ data["data"] = last_message["result"]["state"]
        /\ start_listening_state = TRUE
        /\ raised = "none"

C7_Witness ==
    /\ last_message \in StartListeningResults
    /\ HasKey(prev.data["data"], "stations")
    /\ ~HasKey(data["data"], "stations")
    /\ HasKey(data["data"], "devices")

(* C8: on_message raises nothing and changes nothing for a payload of an
   unprocessed type, a result with an unrecognized messageId, an event of an
   unclassified type, or a malformed payload. *)
C8_UnrecognizedChangesNothing ==
    last_message \in UnrecognizedPayloads \cup MalformedPayloads =>
        (raised = "none" /\ Unchanged)

(* C9: a live event whose serial number has no entity record in the live
   snapshot leaves the store unchanged and raises nothing, also when the
   collection is absent or the snapshot still empty. *)
C9_AbsentSerialIsNoop ==
    (last_message \in LiveEvents /\ ~Present) => (raised = "none" /\ Unchanged)

(* C10: a live event whose serial number is in the named collection sets
   the property on exactly one record of it, leaves every other record,
   every other collection and the cache as they were, and handling the same
   event again changes nothing more. *)
C10_LiveEventSetsOneRecord ==
    (last_message \in LiveEvents /\ Present) =>
        LET before == prev.data["data"]
            after == data["data"]
            conf == EVENT_TYPE_CONFIGURATION[Message["event"]]
            name == Get(Message, "name", conf["name"])
            value == Message[conf["value"]]
        IN  /\ raised = "none"
            /\ DOMAIN after = DOMAIN before
            /\ \A c \in DOMAIN before \ {Collection} : after[c] = before[c]
            /\ Len(after[Collection]) = Len(before[Collection])
            /\ \E i \in 1..Len(before[Collection]) :
                  /\ before[Collection][i]["serialNumber"] = Message["serialNumber"]
                  /\ after[Collection][i] = SetItem(before[Collection][i], name, value)
                  /\ \A j \in 1..Len(before[Collection]) \ {i} :
                        after[Collection][j] = before[Collection][j]
            /\ data["cache"] = prev.data["cache"]
            /\ on_message(last_message, data, start_listening_state,
                          poll_refresing_state).data = data

C10_Witness ==
    /\ last_message \in LiveEvents
    /\ Present
    /\ data # prev.data
    /\ Len(data["data"][Collection]) > 1
    /\ data["cache"] # EmptyDict

(* The property and the value the last event carries. *)
EventName == Get(Message, "name", EVENT_TYPE_CONFIGURATION[Message["event"]]["name"])

EventValue == Message[EVENT_TYPE_CONFIGURATION[Message["event"]]["value"]]

HasNul(value) == value.t = "str" /\ \E i \in 1..Len(value.s) : value.s[i] = "NUL"

(* C11: no string in the property cache contains a NUL character; a cached
   event's non-string value is stored exactly as received; a cached event
   for a serial number without a cache entry creates the entry, and no
   cached event raises. *)
C11_CacheStringsHaveNoNul ==
    /\ \A sn \in DOMAIN data["cache"] : \A p \in DOMAIN data["cache"][sn] :
          ~HasNul(data["cache"][sn][p])
    /\ last_message \in CachedEvents =>
          /\ raised = "none"
          /\ HasKey(data["cache"], Message["serialNumber"])
          /\ HasKey(data["cache"][Message["serialNumber"]], EventName)
          /\ data["cache"][Message["serialNumber"]][EventName].t = EventValue.t
          /\ EventValue.t # "str" =>
                data["cache"][Message["serialNumber"]][EventName] = EventValue

C11_Witness ==
    /\ last_message \in CachedEvents
    /\ HasNul(EventValue)
    /\ ~HasKey(prev.data["cache"], Message["serialNumber"])
    /\ prev.data["cache"] # EmptyDict

(* C12: a handled message publishes the merged state exactly once if it is
   a recognized event or a start_listening result and not at all otherwise;
   a poll_refresh result sets poll_refreshed and changes nothing in the
   store. *)
C12_PublishesOncePerRecognizedMessage ==
    last_message \in StoreMessages =>
        /\ updated = IF last_message \in LiveEvents \cup CachedEvents \cup StartListeningResults
                     THEN 1 ELSE 0
        /\ last_message = PollRefreshResult =>
              (poll_refresing_state = TRUE /\ data = prev.data /\ raised = "none")

(* C13: on_close and on_error each leave listening_active false and the
   live snapshot, the cache and poll_refreshed as they were; on_open leaves
   all of them as they were. *)
C13_CloseAndErrorOnlyResetListening ==
    /\ last_message \in {Callback("on_close"), Callback("on_error")} =>
          /\ start_listening_state = FALSE
          /\ data = prev.data
          /\ poll_refresing_state = prev.poll_refresing_state
    /\ last_message = Callback("on_open") => Unchanged

C13_Witness ==
    /\ last_message = Callback("on_close")
    /\ prev.start_listening_state = TRUE
    /\ prev.poll_refresing_state = TRUE
    /\ data["data"] # EmptyDict

(***************************************************************************)
(* The property commands (lines 228-246, 254-259).  message is the         *)
(* module-level template itself, so what a call assigns to it stays.       *)
(***************************************************************************)
DeviceTypes == {"STATION", "CAMERA", "DOORBELL"}

SerialNumbers == {"S1", "D1", "D2"}

get_device_type_name(device_type) ==
    IF device_type = "STATION" THEN "station" ELSE "device"

(* str.format with one argument: every replacement field becomes the argument. *)
format(template, argument) ==
    [i \in 1..Len(template) |-> IF template[i] = "{}" THEN argument ELSE template[i]]

async_get_properties_metadata_for_device(device_type, serial_no) ==
    LET message == GET_PROPERTIES_METADATA_MESSAGE
        command == format(message["command"], get_device_type_name(device_type))
        filled == [message EXCEPT !["command"] = command, !["serialNumber"] = serial_no]
    IN /\ ws = "open"
       /\ ncommands < MaxCommands
       /\ ncommands' = ncommands + 1
       /\ GET_PROPERTIES_METADATA_MESSAGE' = filled
       /\ sent' = [function |-> "async_get_properties_metadata_for_device",
                   device_type |-> device_type, serial_no |-> serial_no,
                   message |-> filled]
       /\ UNCHANGED <<GET_PROPERTIES_MESSAGE, storeVars, nmessages, initVars, refreshVars,
                      lockVars>>

async_get_properties_for_device(device_type, serial_no) ==
    LET message == GET_PROPERTIES_MESSAGE
        command == format(message["command"], get_device_type_name(device_type))
        filled == [message EXCEPT !["command"] = command, !["serialNumber"] = serial_no]
    IN /\ ws = "open"
       /\ ncommands < MaxCommands
       /\ ncommands' = ncommands + 1
       /\ GET_PROPERTIES_MESSAGE' = filled
       /\ sent' = [function |-> "async_get_properties_for_device",
                   device_type |-> device_type, serial_no |-> serial_no,
                   message |-> filled]
       /\ UNCHANGED <<GET_PROPERTIES_METADATA_MESSAGE, storeVars, nmessages, initVars,
                      refreshVars, lockVars>>

CommandsNext ==
    \/ \E device_type \in DeviceTypes, serial_no \in SerialNumbers :
          async_get_properties_metadata_for_device(device_type, serial_no)
    \/ \E device_type \in DeviceTypes, serial_no \in SerialNumbers :
          async_get_properties_for_device(device_type, serial_no)

SpecCommands == Listening /\ [][CommandsNext]_vars

(***************************************************************************)
(* The flag functions with their locks (lines 76-112).  Every call makes   *)
(* its own asyncio.Lock; `async with` suspends the call only when the lock *)
(* is held, and a set call has no other suspension point.                  *)
(***************************************************************************)
(* Variant: one lock, made by the first call, serves every call. *)
asyncio_Lock_shared == IF locks = <<>> THEN Len(locks) + 1 ELSE Len(locks)

(* Lines 77, 83, 99, 105: asyncio.Lock() is an object no earlier call has. *)
asyncio_Lock == Len(locks) + 1

Made(lock) == IF lock > Len(locks) THEN Append(locks, "free") ELSE locks

FlagValue(flag) ==
    IF flag = "start_listening_state" THEN start_listening_state ELSE poll_refresing_state

(* The flags after the writes `writes` are made in order. *)
Written(flag, writes) ==
    LET own == SelectSeq(writes, LAMBDA p : p.flag = flag)
    IN IF own = <<>> THEN FlagValue(flag) ELSE own[Len(own)].value

Write(writes) ==
    /\ start_listening_state' = Written("start_listening_state", writes)
    /\ poll_refresing_state' = Written("poll_refresing_state", writes)
    /\ write_locks' = [f \in Flags |->
           write_locks[f] \cup {writes[i].lock : i \in {j \in 1..Len(writes) : writes[j].flag = f}}]

(* lock = asyncio.Lock(); async with lock: self.<flag> = value *)
set_state(flag, value) ==
    LET lock == asyncio_Lock
        call == [flag |-> flag, value |-> value, lock |-> lock]
    IN /\ Len(locks) < MaxLocks
       /\ locks' = Made(lock)
       /\ requested' = [requested EXCEPT ![flag] = value]
       /\ IF Made(lock)[lock] = "free"
          THEN Write(<<call>>) /\ UNCHANGED pending
          ELSE /\ pending' = Append(pending, call)
               /\ UNCHANGED <<start_listening_state, poll_refresing_state, write_locks>>
       /\ UNCHANGED <<data, updated, raised, last_message, prev, nmessages, initVars,
                      refreshVars, commandVars, wpc, wcounter, wlock>>

set_start_listening_state(value) == set_state("start_listening_state", value)

set_poll_refreshing_state(value) == set_state("poll_refresing_state", value)

(* The wait returns or sleeps again; returning leaves `async with`, which
   releases the lock and lets the calls suspended on it in. *)
WaitStep(flag, w, lock, held) ==
    LET resumed == SelectSeq(pending, LAMBDA p : p.lock = lock) IN
    /\ wcounter' = [wcounter EXCEPT ![flag] = w.counter]
    /\ IF w.result = "sleep"
       THEN /\ wpc' = [wpc EXCEPT ![flag] = "sleep"]
            /\ wlock' = [wlock EXCEPT ![flag] = lock]
            /\ locks' = [held EXCEPT ![lock] = "held"]
            /\ UNCHANGED <<start_listening_state, poll_refresing_state, write_locks,
                           pending>>
       ELSE /\ wpc' = [wpc EXCEPT ![flag] = w.result]
            /\ wlock' = [wlock EXCEPT ![flag] = 0]
            /\ locks' = [held EXCEPT ![lock] = "free"]
            /\ Write(resumed)
            /\ pending' = SelectSeq(pending, LAMBDA p : p.lock # lock)
    /\ UNCHANGED <<data, updated, raised, last_message, prev, nmessages, initVars,
                   refreshVars, commandVars, requested>>

(* Lines 82-88: counter = 0, the lock is made and taken, the first test. *)
check_if_started_listening(to_be_value) ==
    LET lock == asyncio_Lock IN
    /\ wpc["start_listening_state"] # "sleep"
    /\ Len(locks) < MaxLocks
    /\ Made(lock)[lock] = "free"
    /\ WaitStep("start_listening_state",
                check_if_started_listening_head(start_listening_state, to_be_value, 0, 0),
                lock, Made(lock))

(* Lines 89-96: asyncio.sleep(1) is over. *)
check_if_started_listening_resumed(to_be_value) ==
    /\ wpc["start_listening_state"] = "sleep"
    /\ WaitStep("start_listening_state",
                check_if_started_listening_wake(start_listening_state, to_be_value,
                                                wcounter["start_listening_state"], 0),
                wlock["start_listening_state"], locks)

(* Lines 104-107. *)
check_if_poll_refreshed(to_be_value) ==
    LET lock == asyncio_Lock IN
    /\ wpc["poll_refresing_state"] # "sleep"
    /\ Len(locks) < MaxLocks
    /\ Made(lock)[lock] = "free"
    /\ WaitStep("poll_refresing_state",
                check_if_poll_refreshed_head(poll_refresing_state, to_be_value, 0, 0),
                lock, Made(lock))

(* Lines 108-112. *)
check_if_poll_refreshed_resumed(to_be_value) ==
    /\ wpc["poll_refresing_state"] = "sleep"
    /\ WaitStep("poll_refresing_state",
                check_if_poll_refreshed_wake(poll_refresing_state, to_be_value,
                                             wcounter["poll_refresing_state"], 0),
                wlock["poll_refresing_state"], locks)

LocksNext ==
    \/ \E value \in BOOLEAN : set_start_listening_state(value)
    \/ \E value \in BOOLEAN : set_poll_refreshing_state(value)
    \/ check_if_started_listening(TRUE)
    \/ check_if_started_listening_resumed(TRUE)
    \/ check_if_poll_refreshed(TRUE)
    \/ check_if_poll_refreshed_resumed(TRUE)

SpecLocks == Init /\ [][LocksNext]_vars

(***************************************************************************)
(* Properties of the whole session (SpecSession).                          *)
(***************************************************************************)
(* C14: refresh() succeeds only in the Listening state: a call that returns
   the snapshot found listening_active true at some moment between its
   start and its return. *)
C14_RefreshSucceedsOnlyWhileListening ==
    \A t \in RefreshTasks : Returned(t) => rlistening[t]

(* C15: no step of a refresh() call, successful or not, changes the live
   snapshot or the cache; the store changes only in the steps of on_message. *)
C15_RefreshNeverMutatesStore == [][rpc' # rpc => data' = data]_vars

C15_Witness ==
    /\ Failed("r1")
    /\ data["cache"] # EmptyDict
    /\ HasKey(data["data"], "devices")
    /\ HasKey(data["data"]["devices"][1], "motionDetected")

(* C17: a (serial number, property name) pair of the cache is still in the
   cache after every step, and its value changes only in a step that
   handles a cached event for that serial number and property name. *)
C17_CacheEntriesPersist ==
    [][\A sn \in DOMAIN data["cache"] : \A p \in DOMAIN data["cache"][sn] :
         /\ HasKey(data'["cache"], sn)
         /\ HasKey(data'["cache"][sn], p)
         /\ data'["cache"][sn][p] # data["cache"][sn][p] =>
               \E m \in SessionEvents :
                  /\ EVENT_TYPE_CONFIGURATION[m["event"]["event"]]["is_cached"]
                  /\ m["event"]["serialNumber"] = sn
                  /\ Get(m["event"], "name",
                         EVENT_TYPE_CONFIGURATION[m["event"]["event"]]["name"]) = p
                  /\ data' = on_message(m, data, start_listening_state,
                                        poll_refresing_state).data]_vars

C17_Witness ==
    /\ HasKey(data["cache"], "D1")
    /\ data["cache"]["D1"]["rtspUrl"] = Bool("true")
    /\ listened # NoMessage
    /\ start_listening_state = FALSE
    /\ Failed("r1")

(***************************************************************************)
(* Listening and the snapshot (SpecInitialize).                            *)
(***************************************************************************)
(* The collections of a snapshot and the serial numbers of their records. *)
Skeleton(snapshot) ==
    [c \in DOMAIN snapshot |->
       [i \in 1..Len(snapshot[c]) |-> snapshot[c][i]["serialNumber"]]]

Populated == listened # NoMessage /\ Skeleton(data["data"]) = Skeleton(listened)

(* C20: whenever listening_active is true the live snapshot is the state a
   handled start_listening result carried, up to the properties live events
   set since, and it is so whenever initialize() has returned normally. *)
C20_ListeningImpliesSnapshot ==
    /\ start_listening_state = TRUE => Populated
    /\ ipc = "returned" => Populated

C20_Witness ==
    /\ ipc = "returned"
    /\ start_listening_state = TRUE
    /\ ninit = 2
    /\ data["data"] # listened

(***************************************************************************)
(* The property commands (SpecCommands).                                   *)
(***************************************************************************)
(* C16: the property command a call sends names "station" when the call's
   device type is a station and "device" otherwise, and carries the call's
   serial number, whatever earlier calls were given. *)
C16_CommandMatchesCall ==
    sent # NoMessage =>
        /\ sent.message["command"][1] = get_device_type_name(sent.device_type)
        /\ sent.message["serialNumber"] = sent.serial_no

(***************************************************************************)
(* The locks of the flag functions (SpecLocks).                            *)
(***************************************************************************)
(* C18: the writes of a flag are all made under one lock, the lock the
   callers share. *)
C18_WritersShareOneLock ==
    \A f \in Flags : Cardinality(write_locks[f]) <= 1

(* C19: no set call is ever suspended on its lock, whether or not a wait on
   the flag is asleep holding its own: every flag holds the value its last
   set call was given, which is what the wait reads when it wakes. *)
C19_SetterNeverWaits ==
    /\ pending = <<>>
    /\ \A f \in Flags : write_locks[f] # {} => FlagValue(f) = requested[f]
    /\ \A f \in Flags : wpc[f] = "sleep" => locks[wlock[f]] = "held"

(* A wait that slept came back True: the flag was set while it held its lock. *)
C19_Witness ==
    /\ wpc["poll_refresing_state"] = "True"
    /\ wcounter["poll_refresing_state"] > 0
    /\ wpc["start_listening_state"] = "sleep"
    /\ requested["start_listening_state"] = FALSE
    /\ write_locks["start_listening_state"] # {}

====
